---- MODULE Spec2Model ----
(***************************************************************************)
(* Inventory application (src/sw.py): a Streamlit script over one shared   *)
(* SQLite store.  Every helper opens its own connection and commits one    *)
(* statement, so a helper call is one atomic step on the store; a page     *)
(* handler that calls several helpers is a sequence of such steps, and     *)
(* other browser sessions may run between them.                            *)
(***************************************************************************)
EXTENDS Integers, Sequences, FiniteSets, TLC

\* ------------------------------------------------------------------ bounds
NumSessions == 2      \* concurrent browser sessions
MaxItemRows == 3      \* item ids handed out while one administrator edits the table
MaxStockRows == 1     \* item ids handed out while sessions run concurrently
MaxQty == 2           \* largest quantity typed into a number_input
MaxThreshold == 2     \* largest threshold typed into a number_input
MaxTxns == 2          \* rows logged plus takes in progress
MaxLogins == 3        \* logins are attempted while fewer rows are logged
MaxUserEdits == 1     \* add_user / delete_user / update_user_credentials calls

Sessions == 1..NumSessions

\* ------------------------------------------------------- input alphabets
NameInputs == {"Admin1", "Staff1", "staff1"}
PinInputs == {"admin1pass", "staff1pass"}
RoleInputs == {"admin", "staff"}
CategoryInputs == {"Lamps"}
ItemNameInputs == {"Bulb", "Wire"}

\* Python None / an absent row
None == "None"
NoUser == [id |-> 0, name |-> "", role |-> None, pin |-> <<"sha256", "">>]
NoItem == [id |-> 0, category |-> "", name |-> "", quantity |-> 0, threshold |-> 0]

VARIABLES
    users,          \* table users, rows in rowid order
    next_user_id,   \* AUTOINCREMENT counter of users
    login_requests, \* table login_requests
    login_log,      \* table login_log
    categories,     \* table categories, rows in rowid order
    items,          \* table items, rows in rowid order
    next_item_id,   \* AUTOINCREMENT counter of items
    transactions,   \* table transactions, rows in rowid order
    session,        \* st.session_state of each browser session
    take,           \* the Take Items handler of each session
    user_edits      \* number of user-table edits so far

vars == <<users, next_user_id, login_requests, login_log, categories, items,
          next_item_id, transactions, session, take, user_edits>>

\* ----------------------------------------------------------- pure helpers
\* hashlib.sha256(text).hexdigest(): deterministic, no salt, collision-free
hash_text(text) == <<"sha256", text>>

\* SQL LOWER() on the names in use
LOWER(name) ==
    CASE name = "Admin1" -> "admin1"
      [] name = "Admin2" -> "admin2"
      [] name = "Staff1" -> "staff1"
      [] name = "Staff2" -> "staff2"
      [] OTHER -> name

\* cursor.fetchone() of an unordered SELECT whose WHERE clause matches the
\* rows at indices m: the row of lowest rowid, or none
FetchOne(table, m, none) ==
    IF m = {} THEN none ELSE table[CHOOSE k \in m : \A j \in m : k <= j]

\* DELETE FROM table WHERE id = ?
DeleteById(table, id) ==
    LET Keep(r) == r.id # id IN SelectSeq(table, Keep)

\* the same SELECT with the name compared through LOWER()
AuthRowAnyCase(us, username, pin) ==
    LET Where(u) == LOWER(u.name) = LOWER(username) /\ u.pin = hash_text(pin)
    IN FetchOne(us, {k \in 1..Len(us) : Where(us[k])}, NoUser)

\* SELECT id, role FROM users WHERE name=? AND pin=?
AuthRow(us, username, pin) ==
    LET Where(u) == u.name = username /\ u.pin = hash_text(pin)
    IN FetchOne(us, {k \in 1..Len(us) : Where(us[k])}, NoUser)

\* approved login_requests rows of a user
Approved(user_id) ==
    {k \in 1..Len(login_requests) :
        login_requests[k].user_id = user_id /\ login_requests[k].status = "approved"}

\* authenticate with staff held back until a request of theirs is approved
authenticate_gated(us, username, pin) ==
    LET row == AuthRow(us, username, pin)
    IN IF row = NoUser THEN None
       ELSE IF row.role = "staff" /\ Approved(row.id) = {} THEN None
       ELSE row.role

\* authenticate with a staff user let in once only
authenticate_single_use(us, username, pin) ==
    LET row == AuthRow(us, username, pin)
    IN IF row = NoUser THEN None
       ELSE IF row.role = "staff"
               /\ \E j \in 1..Len(login_log) : login_log[j].user_id = row.id
            THEN None
       ELSE row.role

\* returns the role at once: staff are logged in without pending approval
authenticate(us, username, pin) ==
    LET row == AuthRow(us, username, pin)
    IN IF row # NoUser THEN row.role ELSE None

\* SELECT id, name, role FROM users WHERE LOWER(name)=LOWER(?)
get_user_by_username(us, username) ==
    LET Where(u) == LOWER(u.name) = LOWER(username)
    IN FetchOne(us, {k \in 1..Len(us) : Where(us[k])}, NoUser)

get_categories(cats) == cats

\* SELECT id, name, quantity, threshold FROM items WHERE category=?
get_items_by_category(its, category) ==
    LET Where(i) == i.category = category IN SelectSeq(its, Where)

\* UPDATE items SET quantity=? WHERE id=?
update_item_quantity(its, item_id, quantity) ==
    [k \in 1..Len(its) |->
        IF its[k].id = item_id THEN [its[k] EXCEPT !.quantity = quantity] ELSE its[k]]

delete_item(its, item_id) == DeleteById(its, item_id)

\* INSERT INTO items: the table has no UNIQUE column, the insert always succeeds
add_item(its, id, category, name, quantity, threshold) ==
    Append(its, [id |-> id, category |-> category, name |-> name,
                 quantity |-> quantity, threshold |-> threshold])

\* INSERT INTO transactions
add_transaction(txns, user_id, item_id, quantity_taken) ==
    Append(txns, [user_id |-> user_id, item_id |-> item_id,
                  quantity_taken |-> quantity_taken])

\* INSERT INTO login_log
add_login_log(log, user_id, username) ==
    Append(log, [user_id |-> user_id, username |-> username])

\* SELECT * FROM items
get_items(its) == its

\* int(item[3]), int(item[4]): the columns are INTEGER, int() returns them
int(x) == x

\* if qty < thresh
IsLowStockOrEqual(qty, thresh) == qty <= thresh

IsLowStock(qty, thresh) == qty < thresh

\* the loop of display_low_stock_alerts over get_items(): low_stock grows by
\* (name, qty, thresh) for each row that passes the test, in row order
RECURSIVE low_stock_loop(_, _, _)
low_stock_loop(its, k, low_stock) ==
    IF k > Len(its) THEN low_stock
    ELSE LET qty == int(its[k].quantity)
             thresh == int(its[k].threshold)
         IN low_stock_loop(its, k + 1,
                IF IsLowStock(qty, thresh)
                THEN Append(low_stock, <<its[k].name, qty, thresh>>)
                ELSE low_stock)

display_low_stock_alerts(its) == low_stock_loop(get_items(its), 1, << >>)

\* ------------------------------------------------------------------- Init
SeedUsers ==
    << [id |-> 1, name |-> "Admin1", role |-> "admin", pin |-> hash_text("admin1pass")],
       [id |-> 2, name |-> "Admin2", role |-> "admin", pin |-> hash_text("admin2pass")],
       [id |-> 3, name |-> "Staff1", role |-> "staff", pin |-> hash_text("staff1pass")],
       [id |-> 4, name |-> "Staff2", role |-> "staff", pin |-> hash_text("staff2pass")] >>

NewSession == [logged_in |-> FALSE, role |-> None, username |-> "",
               auth_id |-> 0, error |-> FALSE]

NoTake == [pc |-> "idle", sel |-> NoItem, take_qty |-> 0, new_qty |-> 0]

Init ==
    /\ users = SeedUsers
    /\ next_user_id = 5
    /\ login_requests = << >>
    /\ login_log = << >>
    /\ categories = << >>
    /\ items = << >>
    /\ next_item_id = 1
    /\ transactions = << >>
    /\ session = [s \in Sessions |-> NewSession]
    /\ take = [s \in Sessions |-> NoTake]
    /\ user_edits = 0

\* ---------------------------------------------------------------- actions
\* A browser tab is closed and a new one opened: fresh st.session_state
Reconnect(s) ==
    /\ session[s].logged_in
    /\ take[s].pc \in {"idle", "done", "rejected"}
    /\ session' = [session EXCEPT ![s] = NewSession]
    /\ take' = [take EXCEPT ![s] = NoTake]
    /\ UNCHANGED <<users, next_user_id, login_requests, login_log, categories,
                   items, next_item_id, transactions, user_edits>>

\* Login button
Login(s, username, pin) ==
    /\ ~session[s].logged_in
    /\ Len(login_log) < MaxLogins
    /\ LET role == authenticate(users, username, pin)
           user_info == get_user_by_username(users, username)
       IN IF role # None
          THEN /\ login_log' = IF user_info # NoUser
                               THEN add_login_log(login_log, user_info.id, username)
                               ELSE login_log
               /\ session' = [session EXCEPT ![s] =
                      [logged_in |-> TRUE, role |-> role, username |-> username,
                       auth_id |-> AuthRow(users, username, pin).id, error |-> FALSE]]
          ELSE /\ login_log' = login_log
               /\ session' = [session EXCEPT ![s].error = TRUE]
    /\ UNCHANGED <<users, next_user_id, login_requests, categories, items,
                   next_item_id, transactions, take, user_edits>>

\* ------------------------------------------------- admin pages (nav-gated)
\* "Manage Categories": add_category
add_category(cats, name) ==
    IF \E k \in 1..Len(cats) : cats[k] = name THEN cats ELSE Append(cats, name)

AddCategory(s, name) ==
    /\ session[s].logged_in /\ session[s].role = "admin"
    /\ take[s].pc \in {"idle", "done", "rejected"}
    /\ categories' = add_category(categories, name)
    /\ UNCHANGED <<users, next_user_id, login_requests, login_log, items,
                   next_item_id, transactions, session, take, user_edits>>

\* "Add Items": number_input(min_value=1) for quantity and threshold
AddQtyInputs == 1..MaxQty
AddThresholdInputs == 1..MaxThreshold

AddItem(s, category, name, quantity, threshold) ==
    /\ session[s].logged_in /\ session[s].role = "admin"
    /\ take[s].pc \in {"idle", "done", "rejected"}
    /\ \E k \in 1..Len(get_categories(categories)) : categories[k] = category
    /\ items' = add_item(items, next_item_id, category, name, quantity, threshold)
    /\ next_item_id' = next_item_id + 1
    /\ UNCHANGED <<users, next_user_id, login_requests, login_log, categories,
                   transactions, session, take, user_edits>>

\* ------------------------------------------- "View Inventory" (every role)
\* the same input without its min_value
NewQtyInputsUnbounded == (0 - 1)..MaxQty

\* number_input("New Quantity", min_value=0)
NewQtyInputs == 0..MaxQty

\* text_input for the item id, passed through int(): any id, stored or not
ItemIdInputs == 1..(next_item_id - 1)

UpdateQuantity(s, item_id, new_qty) ==
    /\ session[s].logged_in
    /\ take[s].pc \in {"idle", "done", "rejected"}
    /\ Len(items) > 0
    /\ items' = update_item_quantity(items, item_id, new_qty)
    /\ UNCHANGED <<users, next_user_id, login_requests, login_log, categories,
                   next_item_id, transactions, session, take, user_edits>>

DeleteItem(s, item_id) ==
    /\ session[s].logged_in
    /\ take[s].pc \in {"idle", "done", "rejected"}
    /\ Len(items) > 0
    /\ items' = delete_item(items, item_id)
    /\ UNCHANGED <<users, next_user_id, login_requests, login_log, categories,
                   next_item_id, transactions, session, take, user_edits>>

\* ------------------------------------------------ "Take Items" (staff only)
\* number_input("Quantity to take", min_value=1, max_value=selected_item[2])
TakeQtyInputs(sel) == 1..sel.quantity

\* new_qty = selected_item[2] - take_qty
NewQty(sel, take_qty) == sel.quantity - take_qty

\* if new_qty < 0: st.error("Not enough stock available.")
InsufficientStock(new_qty) == new_qty < 0

\* sessions between the read and the end of a Take Item rerun
InFlight == {s \in Sessions : take[s].pc \in {"selected", "written"}}

\* the rerun reads the rows of the chosen category and picks the selected one
TakeRead(s, category, k) ==
    /\ session[s].logged_in /\ session[s].role = "staff"
    /\ take[s].pc \in {"idle", "done", "rejected"}
    /\ Len(transactions) + Cardinality(InFlight) < MaxTxns
    /\ \E c \in 1..Len(get_categories(categories)) : categories[c] = category
    /\ LET items_in_cat == get_items_by_category(items, category)
       IN /\ k \in 1..Len(items_in_cat)
          \* max_value < min_value makes number_input raise: the rerun ends
          \* before the button is drawn
          /\ TakeQtyInputs(items_in_cat[k]) # {}
          /\ take' = [take EXCEPT ![s] =
                 [pc |-> "selected", sel |-> items_in_cat[k],
                  take_qty |-> 0, new_qty |-> 0]]
    /\ UNCHANGED <<users, next_user_id, login_requests, login_log, categories,
                   items, next_item_id, transactions, session, user_edits>>

\* "Take Item" button: the check and the write, from the row read above
TakeWrite(s, take_qty) ==
    /\ take[s].pc = "selected"
    /\ take_qty \in TakeQtyInputs(take[s].sel)
    /\ LET new_qty == NewQty(take[s].sel, take_qty)
       IN IF InsufficientStock(new_qty)
          THEN /\ items' = items
               /\ take' = [take EXCEPT ![s].pc = "rejected",
                                       ![s].take_qty = take_qty]
          ELSE /\ items' = update_item_quantity(items, take[s].sel.id, new_qty)
               /\ take' = [take EXCEPT ![s].pc = "written",
                                       ![s].take_qty = take_qty,
                                       ![s].new_qty = new_qty]
    /\ UNCHANGED <<users, next_user_id, login_requests, login_log, categories,
                   next_item_id, transactions, session, user_edits>>

\* the transaction row, when the session's username still names a user,
\* then st.success(...) with take_qty and new_qty; the rerun ends and its
\* locals are gone
TakeLog(s) ==
    /\ take[s].pc = "written"
    /\ LET current_user == get_user_by_username(users, session[s].username)
       IN transactions' =
              IF current_user # NoUser
              THEN add_transaction(transactions, current_user.id,
                                   take[s].sel.id, take[s].take_qty)
              ELSE transactions
    /\ take' = [take EXCEPT ![s] = [NoTake EXCEPT !.pc = "done"]]
    /\ UNCHANGED <<users, next_user_id, login_requests, login_log, categories,
                   items, next_item_id, session, user_edits>>

\* ----------------------------------------------- "User Management" (admin)
NameTaken(us, name, except_id) ==
    \E k \in 1..Len(us) : us[k].name = name /\ us[k].id # except_id

\* INSERT INTO users; UNIQUE(name) raises IntegrityError, which is caught
add_user(us, id, name, role, pin) ==
    IF NameTaken(us, name, 0) THEN us
    ELSE Append(us, [id |-> id, name |-> name, role |-> role, pin |-> hash_text(pin)])

delete_user(us, user_id) == DeleteById(us, user_id)

\* UPDATE users SET name=?, pin=? WHERE id=?
update_user_credentials(us, user_id, new_name, new_pin) ==
    [k \in 1..Len(us) |->
        IF us[k].id = user_id
        THEN [us[k] EXCEPT !.name = new_name, !.pin = hash_text(new_pin)]
        ELSE us[k]]

AddUser(s, name, role, pin) ==
    /\ session[s].logged_in /\ session[s].role = "admin"
    /\ take[s].pc \in {"idle", "done", "rejected"}
    /\ user_edits < MaxUserEdits
    /\ users' = add_user(users, next_user_id, name, role, pin)
    /\ next_user_id' = IF users' # users THEN next_user_id + 1 ELSE next_user_id
    /\ user_edits' = user_edits + 1
    /\ UNCHANGED <<login_requests, login_log, categories, items, next_item_id,
                   transactions, session, take>>

DeleteUser(s, user_id) ==
    /\ session[s].logged_in /\ session[s].role = "admin"
    /\ take[s].pc \in {"idle", "done", "rejected"}
    /\ user_edits < MaxUserEdits
    /\ \E k \in 1..Len(users) : users[k].id = user_id
    /\ users' = delete_user(users, user_id)
    /\ user_edits' = user_edits + 1
    /\ UNCHANGED <<next_user_id, login_requests, login_log, categories, items,
                   next_item_id, transactions, session, take>>

\* ------------------------------------------- "Account Settings" (every role)
\* the UPDATE raises an uncaught IntegrityError when the new name is taken:
\* the rerun ends there and st.session_state.username keeps its value
UpdateCredentials(s, new_name, new_pin) ==
    /\ session[s].logged_in
    /\ take[s].pc \in {"idle", "done", "rejected"}
    /\ user_edits < MaxUserEdits
    /\ LET current_user == get_user_by_username(users, session[s].username)
       IN /\ current_user # NoUser
          /\ IF NameTaken(users, new_name, current_user.id)
             THEN UNCHANGED <<users, session>>
             ELSE /\ users' = update_user_credentials(users, current_user.id,
                                                      new_name, new_pin)
                  /\ session' = [session EXCEPT ![s].username = new_name]
    /\ user_edits' = user_edits + 1
    /\ UNCHANGED <<next_user_id, login_requests, login_log, categories, items,
                   next_item_id, transactions, take>>

\* --------------------------------------------------------- specifications
\* credential pairs typed into the login form by users who know their PIN
KnownLogins == {<<"Admin1", "admin1pass">>, <<"Staff1", "staff1pass">>}

\* The whole application: every page of every session
Next ==
    \/ \E s \in Sessions : Reconnect(s)
    \/ \E s \in Sessions, n \in NameInputs, p \in PinInputs : Login(s, n, p)
    \/ \E s \in Sessions, c \in CategoryInputs : AddCategory(s, c)
    \/ \E s \in Sessions, c \in CategoryInputs, q \in AddQtyInputs :
          next_item_id <= MaxStockRows /\ AddItem(s, c, "Bulb", q, 1)
    \/ \E s \in Sessions, i \in ItemIdInputs, q \in NewQtyInputs :
          UpdateQuantity(s, i, q)
    \/ \E s \in Sessions, i \in ItemIdInputs : DeleteItem(s, i)
    \/ \E s \in Sessions, c \in CategoryInputs, k \in 1..Len(items) :
          TakeRead(s, c, k)
    \/ \E s \in Sessions, q \in 1..MaxQty : TakeWrite(s, q)
    \/ \E s \in Sessions : TakeLog(s)
    \/ \E s \in Sessions, n \in NameInputs, r \in RoleInputs, p \in PinInputs :
          AddUser(s, n, r, p)
    \/ \E s \in Sessions, u \in 1..(next_user_id - 1) : DeleteUser(s, u)
    \/ \E s \in Sessions, n \in NameInputs, p \in PinInputs :
          UpdateCredentials(s, n, p)

Spec == Init /\ [][Next]_vars

\* The stock ledger under concurrent sessions: take, set, add and delete.
\* Sessions are interchangeable: session 1 is the administrator's browser,
\* the others are staff browsers (staff reach View Inventory as well).
NextStock ==
    \/ Login(1, "Admin1", "admin1pass")
    \/ \E s \in Sessions \ {1} : Login(s, "Staff1", "staff1pass")
    \/ \E s \in Sessions, c \in CategoryInputs : AddCategory(s, c)
    \/ \E s \in Sessions, c \in CategoryInputs, q \in AddQtyInputs :
          next_item_id <= MaxStockRows /\ AddItem(s, c, "Bulb", q, 1)
    \/ \E s \in Sessions, i \in ItemIdInputs, q \in NewQtyInputs :
          UpdateQuantity(s, i, q)
    \/ \E s \in Sessions, i \in ItemIdInputs : DeleteItem(s, i)
    \/ \E s \in Sessions, c \in CategoryInputs, k \in 1..Len(items) :
          TakeRead(s, c, k)
    \/ \E s \in Sessions, q \in 1..MaxQty : TakeWrite(s, q)
    \/ \E s \in Sessions : TakeLog(s)

SpecStock == Init /\ [][NextStock]_vars

\* Concurrent takes alone: quantities change through the Take Items page only
NextTakes ==
    \/ \E s \in Sessions : Reconnect(s)
    \/ \E s \in Sessions, l \in KnownLogins : Login(s, l[1], l[2])
    \/ \E s \in Sessions, c \in CategoryInputs : AddCategory(s, c)
    \/ \E s \in Sessions, c \in CategoryInputs, q \in AddQtyInputs :
          next_item_id <= MaxStockRows /\ AddItem(s, c, "Bulb", q, 1)
    \/ \E s \in Sessions, c \in CategoryInputs, k \in 1..Len(items) :
          TakeRead(s, c, k)
    \/ \E s \in Sessions, q \in 1..MaxQty : TakeWrite(s, q)
    \/ \E s \in Sessions : TakeLog(s)

SpecTakes == Init /\ [][NextTakes]_vars

\* The login gate and the credential store
NextAuth ==
    \/ \E s \in Sessions, n \in NameInputs, p \in PinInputs : Login(s, n, p)
    \/ \E s \in Sessions, n \in NameInputs, r \in RoleInputs, p \in PinInputs :
          AddUser(s, n, r, p)
    \/ \E s \in Sessions, u \in 1..(next_user_id - 1) : DeleteUser(s, u)
    \/ \E s \in Sessions, n \in NameInputs, p \in PinInputs :
          UpdateCredentials(s, n, p)

SpecAuth == Init /\ [][NextAuth]_vars

\* One administrator editing the item table
NextInventory ==
    \/ Login(1, "Admin1", "admin1pass")
    \/ \E c \in CategoryInputs : AddCategory(1, c)
    \/ \E c \in CategoryInputs, n \in ItemNameInputs, q \in AddQtyInputs,
          t \in AddThresholdInputs :
          next_item_id <= MaxItemRows /\ AddItem(1, c, n, q, t)
    \/ \E i \in ItemIdInputs, q \in NewQtyInputs : UpdateQuantity(1, i, q)
    \/ \E i \in ItemIdInputs : DeleteItem(1, i)

SpecInventory == Init /\ [][NextInventory]_vars

\* The data-access helpers called directly, without the pages in front
CoreQtyInputs == (0 - 1)..MaxQty

CoreAddItem(category, name, quantity, threshold) ==
    /\ next_item_id <= MaxItemRows
    /\ items' = add_item(items, next_item_id, category, name, quantity, threshold)
    /\ next_item_id' = next_item_id + 1
    /\ UNCHANGED <<users, next_user_id, login_requests, login_log, categories,
                   transactions, session, take, user_edits>>

CoreUpdateItemQuantity(item_id, quantity) ==
    /\ items' = update_item_quantity(items, item_id, quantity)
    /\ UNCHANGED <<users, next_user_id, login_requests, login_log, categories,
                   next_item_id, transactions, session, take, user_edits>>

CoreDeleteItem(item_id) ==
    /\ items' = delete_item(items, item_id)
    /\ UNCHANGED <<users, next_user_id, login_requests, login_log, categories,
                   next_item_id, transactions, session, take, user_edits>>

NextCore ==
    \/ \E c \in CategoryInputs, q \in AddQtyInputs : CoreAddItem(c, "Bulb", q, 1)
    \/ \E i \in ItemIdInputs, q \in CoreQtyInputs : CoreUpdateItemQuantity(i, q)
    \/ \E i \in ItemIdInputs : CoreDeleteItem(i)

SpecCore == Init /\ [][NextCore]_vars

\* ------------------------------------------------------------- properties
StoredIds == {items[k].id : k \in 1..Len(items)}

\* quantity column of the row with this id (the id is stored)
StoredQty(its, id) == its[CHOOSE k \in 1..Len(its) : its[k].id = id].quantity

\* C1: in every reachable state of the concurrent sessions, every stored
\* item has quantity >= 0.
C1_QuantityNeverNegative ==
    \A k \in 1..Len(items) : items[k].quantity >= 0

\* a take that emptied the item has been written while the other session's
\* page has changed the same table
C1_Witness ==
    \E s \in Sessions :
        /\ take[s].pc = "written"
        /\ take[s].new_qty = 0
        /\ take[s].sel.id \in StoredIds
        /\ StoredQty(items, take[s].sel.id) = 0
        /\ Len(transactions) >= 1

\* C9: the low-stock view holds exactly the rows with quantity < threshold
\* (a row with quantity = threshold is left out), in the order of the item
\* list.
LowRows == {k \in 1..Len(items) : items[k].quantity < items[k].threshold}

NthLowRow(j) == CHOOSE k \in LowRows : Cardinality({i \in LowRows : i <= k}) = j

C9_LowStockView ==
    LET view == display_low_stock_alerts(items)
    IN /\ Len(view) = Cardinality(LowRows)
       /\ \A j \in 1..Len(view) :
              view[j] = <<items[NthLowRow(j)].name, items[NthLowRow(j)].quantity,
                          items[NthLowRow(j)].threshold>>

\* two different low rows are listed in table order around a row whose
\* quantity equals its threshold
C9_Witness ==
    /\ Len(items) = 3
    /\ items[1].quantity < items[1].threshold
    /\ items[2].quantity = items[2].threshold
    /\ items[3].quantity < items[3].threshold
    /\ items[1].name # items[3].name
    /\ Len(display_low_stock_alerts(items)) = 2

\* C10: the core set_quantity rejects a negative new quantity and leaves the
\* item's quantity unchanged.
C10_CoreRejectsNegative ==
    [][\A i \in 1..MaxItemRows, q \in CoreQtyInputs :
          (q < 0 /\ CoreUpdateItemQuantity(i, q)) => items' = items]_vars

\* C2: two sessions that concurrently take the full amount q of an item
\* holding q units end with exactly one success and one rejection.
C2_ExactlyOneTakeSucceeds ==
    \A s1, s2 \in Sessions :
        ( /\ s1 # s2
          /\ take[s1].pc \in {"written", "rejected"}
          /\ take[s2].pc \in {"written", "rejected"}
          /\ take[s1].sel.id = take[s2].sel.id
          /\ take[s1].sel.quantity = take[s2].sel.quantity
          /\ take[s1].take_qty = take[s1].sel.quantity
          /\ take[s2].take_qty = take[s2].sel.quantity )
        => (take[s1].pc = "written") # (take[s2].pc = "written")

\* C3: a take whose amount exceeds the quantity now in the store is rejected
\* and changes neither the quantity nor the transaction log, each time it is
\* made.
C3_ExcessTakeRejected ==
    [][\A s \in Sessions, a \in 1..MaxQty :
          ( /\ TakeWrite(s, a)
            /\ take[s].sel.id \in StoredIds
            /\ a > StoredQty(items, take[s].sel.id) )
          => ( /\ take'[s].pc = "rejected"
               /\ items' = items
               /\ transactions' = transactions )]_vars

\* C4: a take of a, 1 <= a <= the quantity in the store at the time of the
\* take, succeeds and stores and reports that quantity minus a.
C4_TakeYieldsDifference ==
    [][\A s \in Sessions, a \in 1..MaxQty :
          ( /\ TakeWrite(s, a)
            /\ take[s].sel.id \in StoredIds
            /\ a <= StoredQty(items, take[s].sel.id) )
          => ( /\ take'[s].pc = "written"
               /\ take'[s].new_qty = StoredQty(items, take[s].sel.id) - a
               /\ StoredQty(items', take[s].sel.id)
                      = StoredQty(items, take[s].sel.id) - a )]_vars

\* C5: every take that reports success has appended one transaction row for
\* the item and the amount taken.
C5_SuccessLogsTransaction ==
    [][\A s \in Sessions :
          TakeLog(s)
          => ( /\ Len(transactions') = Len(transactions) + 1
               /\ transactions'[Len(transactions')].item_id = take[s].sel.id
               /\ transactions'[Len(transactions')].quantity_taken
                      = take[s].take_qty )]_vars

\* rows of users that a (name, PIN) pair matches exactly
ExactMatches(username, pin) ==
    {k \in 1..Len(users) : users[k].name = username /\ users[k].pin = hash_text(pin)}

StaffMatches(username, pin) ==
    {k \in ExactMatches(username, pin) : users[k].role = "staff"}

C8_ExactCredentials ==
    [][\A s \in Sessions, n \in NameInputs, p \in PinInputs :
          Login(s, n, p)
          => IF ExactMatches(n, p) # {}
             THEN /\ session'[s].logged_in
                  /\ \A k \in ExactMatches(n, p) : session'[s].role = users[k].role
             ELSE /\ ~session'[s].logged_in
                  /\ session'[s].role = None
                  /\ session'[s].error
                  /\ UNCHANGED <<users, next_user_id, login_requests, login_log,
                                 categories, items, next_item_id, transactions>>]_vars

\* one session was refused and stays logged out, another was let in
C8_Witness ==
    \E s1, s2 \in Sessions :
        /\ session[s1].error /\ ~session[s1].logged_in
        /\ session[s2].logged_in /\ session[s2].role = "admin"

\* C11: add_item for a name the table already holds fails and leaves the
\* table unchanged, so the item list never holds two rows with one name.
C11_OneItemPerName ==
    /\ [](\A j, k \in 1..Len(items) : items[j].name = items[k].name => j = k)
    /\ [][\A c \in CategoryInputs, n \in ItemNameInputs, q \in AddQtyInputs,
            t \in AddThresholdInputs :
             (CoreAddItem(c, n, q, t) /\ \E k \in 1..Len(items) : items[k].name = n)
             => items' = items]_vars

\* C12: only a session whose role is admin changes the item table through
\* the Update Quantity and Delete Item buttons.
C12_EditsAreAdminOnly ==
    [][\A s \in Sessions, i \in 1..MaxStockRows :
          ( /\ \/ \E q \in NewQtyInputs : UpdateQuantity(s, i, q)
               \/ DeleteItem(s, i)
            /\ items' # items )
          => session[s].role = "admin"]_vars

\* C13: no two stored users have names that are equal ignoring letter case.
C13_NamesUniqueIgnoringCase ==
    \A j, k \in 1..Len(users) :
        LOWER(users[j].name) = LOWER(users[k].name) => j = k

\* rows of the log for this item
TakenRows(txns, id) == {k \in 1..Len(txns) : txns[k].item_id = id}

\* takes of this item written by other sessions and not yet logged
OtherWritten(s, id) ==
    {t \in Sessions \ {s} : take[t].pc = "written" /\ take[t].sel.id = id}

\* C14: when the stored quantity of an item nobody else has taken differs
\* from the quantity a take read (a set_quantity committed in between), the
\* take is rejected or writes the stored quantity minus the amount taken.
C14_TakeSeesCommittedSet ==
    [][\A s \in Sessions, a \in 1..MaxQty :
          ( /\ TakeWrite(s, a)
            /\ take[s].sel.id \in StoredIds
            /\ StoredQty(items, take[s].sel.id) # take[s].sel.quantity
            /\ TakenRows(transactions, take[s].sel.id) = {}
            /\ OtherWritten(s, take[s].sel.id) = {} )
          => \/ take'[s].pc = "rejected" /\ items' = items
             \/ StoredQty(items', take[s].sel.id)
                    = StoredQty(items, take[s].sel.id) - a]_vars

\* sum of quantity_taken over the rows of the log for this item
RECURSIVE SumTaken(_, _)
SumTaken(txns, id) ==
    IF txns = << >> THEN 0
    ELSE (IF Head(txns).item_id = id THEN Head(txns).quantity_taken ELSE 0)
         + SumTaken(Tail(txns), id)

\* sum of the amounts of the takes of this item that are written and whose
\* log row is still to come
RECURSIVE SumPending(_, _, _)
SumPending(tk, S, id) ==
    IF S = {} THEN 0
    ELSE LET s == CHOOSE x \in S : TRUE
         IN (IF tk[s].pc = "written" /\ tk[s].sel.id = id THEN tk[s].take_qty ELSE 0)
            + SumPending(tk, S \ {s}, id)

\* what an item accounts for: in store, logged as taken, taken and about to
\* be logged
Accounted(its, txns, tk, id) ==
    StoredQty(its, id) + SumTaken(txns, id) + SumPending(tk, Sessions, id)

\* C15: with no set_quantity and no delete_item, the quantity of an item plus
\* the amounts taken from it stays what the item was added with, under any
\* interleaving of takes.
C15_StockConserved ==
    [][\A id \in StoredIds :
          id \in {items'[k].id : k \in 1..Len(items')}
          => Accounted(items', transactions', take', id)
                 = Accounted(items, transactions, take, id)]_vars

\* C16: the user_id of every transaction row a take appends is the id of the
\* user whose name and PIN the taking session logged in with.
C16_RowNamesAuthenticatedUser ==
    [][\A s \in Sessions :
          (TakeLog(s) /\ Len(transactions') > Len(transactions))
          => transactions'[Len(transactions')].user_id = session[s].auth_id]_vars

StoredUserIds == {users[k].id : k \in 1..Len(users)}

\* C17: every transaction row references a stored item and a stored user,
\* and a take of an item that was deleted before the take's write neither
\* reports success nor logs a row.
C17_LogReferencesStoredRows ==
    /\ [](\A k \in 1..Len(transactions) :
              /\ transactions[k].item_id \in StoredIds
              /\ transactions[k].user_id \in StoredUserIds)
    /\ [][\A s \in Sessions, a \in 1..MaxQty :
             (TakeWrite(s, a) /\ take[s].sel.id \notin StoredIds)
             => take'[s].pc # "written"]_vars
====
